---- MODULE Spec2Model ----
(***************************************************************************)
(* A model of the CP test log analyzers of this repository:               *)
(*   rawdata_analyzer_project/scripts/log_parser.py    (CPLogParser)      *)
(*   rawdata_analyzer_project/scripts/data_analyzer.py (CPDataAnalyzer)   *)
(*   cp_analyzer_project/scripts/log_parser.py         (CPLogParser)      *)
(*                                                                         *)
(* Text is modelled as sequences of one-character strings.  A line of a   *)
(* log file is its text without the newline that ends it.  A Python float *)
(* is modelled as an exact decimal m * 10^e kept in normal form (m has no *)
(* trailing zero; zero is 0 * 10^0), None and NaN as the value None.      *)
(***************************************************************************)
EXTENDS Integers, Sequences, FiniteSets, TLC

VARIABLES
    log_files,          \* rawdata: the .TXT files of log_dir, in listing order
    idx,                \* rawdata: files of log_files consumed by parse_all_logs
    all_data,           \* rawdata: parse_all_logs's all_data (list of frames)
    parameter_limits,   \* rawdata: CPLogParser.parameter_limits
    combined,           \* rawdata: the frame parse_all_logs returned
    log,                \* what the program printed or recorded, in order
    pc,                 \* rawdata: "start", "parsing" or "done"
    set_calls,          \* rawdata: the set_limits calls made, in order, and
                        \* whether each came before parse_all_logs
    value_str,          \* argument of the last _parse_scientific_notation call
    ret,                \* value that call returned
    data,               \* CPDataAnalyzer.data
    yield_data,         \* the frame calculate_yield returned, when it was called last
    yield_call,         \* the arguments of that calculate_yield
    query,              \* the last call of another query of CPDataAnalyzer
    answer,             \* what that query returned
    cp_files,           \* cp_analyzer: the files under data_dir, as os.walk lists them
    cp_log_files,       \* cp_analyzer: the files find_log_files returned
    cp_idx,             \* cp_analyzer: files consumed by parse_all_files
    cp_all_data,        \* cp_analyzer: parse_all_files's all_data
    cp_all_limits,      \* cp_analyzer: parse_all_files's all_limits
    cp_ret,             \* cp_analyzer: what parse_all_files returned
    cp_pc               \* cp_analyzer: "start", "parsing" or "done"

rawVars == <<log_files, idx, all_data, parameter_limits, combined, pc, set_calls>>
tokVars == <<value_str, ret>>
anaVars == <<data, yield_data, yield_call, query, answer>>
cpVars  == <<cp_files, cp_log_files, cp_idx, cp_all_data, cp_all_limits,
            cp_ret, cp_pc>>
vars    == <<rawVars, log, tokVars, anaVars, cpVars>>

----------------------------------------------------------------------------
(* Values *)

\* Python's None / pandas' missing value
None == [kind |-> "None"]

RECURSIVE Number(_, _)
\* the float m * 10^e, as a decimal in normal form
Number(m, e) ==
    IF m = 0 THEN [kind |-> "num", m |-> 0, e |-> 0]
    ELSE IF m % 10 = 0 THEN Number(m \div 10, e + 1)
    ELSE [kind |-> "num", m |-> m, e |-> e]

IsNumber(v) == v.kind = "num"

RECURSIVE Pow10(_)
Pow10(n) == IF n = 0 THEN 1 ELSE 10 * Pow10(n - 1)

\* a < b for two numbers
NumLess(a, b) ==
    LET lo == IF a.e < b.e THEN a.e ELSE b.e
    IN  a.m * Pow10(a.e - lo) < b.m * Pow10(b.e - lo)

----------------------------------------------------------------------------
(* Characters and strings *)

Digits == {"0", "1", "2", "3", "4", "5", "6", "7", "8", "9"}

DigitVal(c) ==
    CASE c = "0" -> 0 [] c = "1" -> 1 [] c = "2" -> 2 [] c = "3" -> 3
      [] c = "4" -> 4 [] c = "5" -> 5 [] c = "6" -> 6 [] c = "7" -> 7
      [] c = "8" -> 8 [] c = "9" -> 9

\* [a-zA-Z]
Letters ==
    {"a", "b", "c", "d", "e", "f", "g", "h", "i", "j", "k", "l", "m", "n",
     "o", "p", "q", "r", "s", "t", "u", "v", "w", "x", "y", "z", "A", "B",
     "C", "D", "E", "F", "G", "H", "I", "J", "K", "L", "M", "N", "O", "P",
     "Q", "R", "S", "T", "U", "V", "W", "X", "Y", "Z"}

\* the digits and letters, in code point order
CodePoints ==
    <<"0", "1", "2", "3", "4", "5", "6", "7", "8", "9",
      "A", "B", "C", "D", "E", "F", "G", "H", "I", "J", "K", "L", "M",
      "N", "O", "P", "Q", "R", "S", "T", "U", "V", "W", "X", "Y", "Z",
      "a", "b", "c", "d", "e", "f", "g", "h", "i", "j", "k", "l", "m",
      "n", "o", "p", "q", "r", "s", "t", "u", "v", "w", "x", "y", "z">>

\* the position of a digit or letter in that order
Ord(c) == CHOOSE i \in 1..Len(CodePoints) : CodePoints[i] = c

TAB == "\t"

\* the whitespace that occurs in the modelled text (str.strip, regex \s)
Whitespace == {" ", TAB}

SignChars == {"-", "+"}

\* s[i..] as Python slices it
Drop(s, n) == SubSeq(s, n + 1, Len(s))

RECURSIVE LStrip(_)
LStrip(s) ==
    IF s # <<>> /\ Head(s) \in Whitespace THEN LStrip(Tail(s)) ELSE s

RECURSIVE RStrip(_)
RStrip(s) ==
    IF s # <<>> /\ s[Len(s)] \in Whitespace
    THEN RStrip(SubSeq(s, 1, Len(s) - 1)) ELSE s

\* str.strip()
Strip(s) == RStrip(LStrip(s))

RECURSIVE RunEnd(_, _, _)
\* the index after the longest run of characters of class C starting at i
RunEnd(s, i, C) ==
    IF i <= Len(s) /\ s[i] \in C THEN RunEnd(s, i + 1, C) ELSE i

RECURSIVE DigitsVal(_)
\* int() of a string of digits (0 for the empty string)
DigitsVal(s) ==
    IF s = <<>> THEN 0
    ELSE 10 * DigitsVal(SubSeq(s, 1, Len(s) - 1)) + DigitVal(s[Len(s)])

\* str.startswith
StartsWith(s, p) == Len(s) >= Len(p) /\ SubSeq(s, 1, Len(p)) = p

\* p in s, for strings
Contains(s, p) ==
    \E i \in 1..(Len(s) - Len(p) + 1) : SubSeq(s, i, i + Len(p) - 1) = p

\* str.isdigit() of a string
StrIsDigit(s) == s # <<>> /\ \A i \in 1..Len(s) : s[i] \in Digits

----------------------------------------------------------------------------
(* rawdata_analyzer_project: CPLogParser._parse_scientific_notation *)

\* the sentinel token '999.9'
Sentinel == <<"9", "9", "9", ".", "9">>

\* unit_multipliers, each multiplier 10^k given by k
unit_multipliers ==
    (<<"u">> :> -6) @@ (<<"n">> :> -9) @@ (<<"m">> :> -3) @@
    (<<"k">> :> 3) @@ (<<"M">> :> 6) @@ (<<"G">> :> 9)

\* re.match(r'([-+]?\d*\.?\d+(?:[eE][-+]?\d+)?)\s*([a-zA-Z]*)([a-zA-Z]*)?', s),
\* in the order in which the pattern consumes s.  The result says whether it
\* matches and gives the literal's sign, integer digits, fraction digits and
\* exponent, the index after group 1, and group 2 (the greedy run of letters;
\* group 3 is always empty).

\* after (?:[eE][-+]?\d+)?, which ends before xend: \s*([a-zA-Z]*)
ReUnit(s, lit, xneg, xval, g1end) ==
    [ok |-> lit.ok, neg |-> lit.neg, intd |-> lit.intd, fracd |-> lit.fracd,
     exp |-> IF xneg THEN 0 - xval ELSE xval, g1end |-> g1end,
     group2 |-> SubSeq(s, RunEnd(s, g1end, Whitespace),
                       RunEnd(s, RunEnd(s, g1end, Whitespace), Letters) - 1)]

\* [eE][-+]?\d+ tried at litend, its digits being s[xs..xend-1]
ReExponentDigits(s, lit, litend, xs, xend) ==
    IF xend > xs
    THEN ReUnit(s, lit, s[litend + 1] = "-", DigitsVal(SubSeq(s, xs, xend - 1)), xend)
    ELSE ReUnit(s, lit, FALSE, 0, litend)

\* (?:[eE][-+]?\d+)? after the literal, which ends before litend
ReExponent(s, lit, litend) ==
    IF litend <= Len(s) /\ s[litend] \in {"e", "E"}
    THEN IF litend + 1 <= Len(s) /\ s[litend + 1] \in SignChars
         THEN ReExponentDigits(s, lit, litend, litend + 2,
                               RunEnd(s, litend + 2, Digits))
         ELSE ReExponentDigits(s, lit, litend, litend + 1,
                               RunEnd(s, litend + 1, Digits))
    ELSE ReUnit(s, lit, FALSE, 0, litend)

\* \.?\d+ after the integer digits s[p1..d1end-1], the digits that follow a
\* dot at d1end ending before d2end
ReFraction(s, p1, d1end, d2end) ==
    IF d1end <= Len(s) /\ s[d1end] = "." /\ d2end > d1end + 1
    THEN ReExponent(s, [ok |-> TRUE, neg |-> s[1] = "-",
                        intd |-> SubSeq(s, p1, d1end - 1),
                        fracd |-> SubSeq(s, d1end + 1, d2end - 1)], d2end)
    ELSE ReExponent(s, [ok |-> d1end > p1, neg |-> s # <<>> /\ s[1] = "-",
                        intd |-> SubSeq(s, p1, d1end - 1), fracd |-> <<>>], d1end)

\* \d* after the sign, the literal's digits starting at p1
ReDigits(s, p1, d1end) == ReFraction(s, p1, d1end, RunEnd(s, d1end + 1, Digits))

ReMatch(s) ==
    IF s # <<>> /\ s[1] \in SignChars
    THEN ReDigits(s, 2, RunEnd(s, 2, Digits))
    ELSE ReDigits(s, 1, RunEnd(s, 1, Digits))

\* float(match.group(1))
FloatOfMatch(m) ==
    IF m.neg
    THEN Number(0 - DigitsVal(m.intd \o m.fracd), m.exp - Len(m.fracd))
    ELSE Number(DigitsVal(m.intd \o m.fracd), m.exp - Len(m.fracd))

\* value *= unit_multipliers[match.group(2)], the multiplier looked up by the
\* whole of group 2
ApplyUnit(v, group2) ==
    IF group2 \in DOMAIN unit_multipliers
    THEN Number(v.m, v.e + unit_multipliers[group2])
    ELSE v

\* the part of _parse_scientific_notation after the regular expression
ParseMatched(s, m) ==
    IF m.ok THEN ApplyUnit(FloatOfMatch(m), m.group2)
    ELSE IF s = <<"-">> THEN Number(0, 0)
    ELSE None

\* the part of _parse_scientific_notation after value_str.strip()
ParseStripped(s) ==
    IF s = <<>> \/ s = Sentinel THEN None ELSE ParseMatched(s, ReMatch(s))

\* _parse_scientific_notation
ParseSci(s0) == ParseStripped(Strip(s0))

\* the bare dash read as "no value"
ParseSci_DashMissing(s0) ==
    IF Strip(s0) = <<"-">> THEN None ELSE ParseSci(s0)

NegatedIfDash(s, v) ==
    IF Len(s) > 1 /\ s[Len(s)] = "-" /\ IsNumber(v) THEN Number(0 - v.m, v.e) ELSE v

\* a trailing dash read as a minus sign
ParseSci_TrailingDashNegates(s0) == NegatedIfDash(Strip(s0), ParseSci(s0))

\* the sentinel recognised by its literal, whatever follows it
ParseSci_SentinelPrefix(s0) ==
    IF StartsWith(Strip(s0), Sentinel) THEN None ELSE ParseSci(s0)

\* CPLogParser._parse_scientific_notation(value_str), for a str argument
parse_scientific_notation(s) == ParseSci(s)

----------------------------------------------------------------------------
(* Lines: a line is its text without the newline that ends it *)

RECURSIVE SplitTab(_)
\* str.split('\t')
SplitTab(s) ==
    LET i == RunEnd(s, 1, {c \in {s[k] : k \in 1..Len(s)} : c # TAB})
    IN  IF i > Len(s) THEN <<s>>
        ELSE <<SubSeq(s, 1, i - 1)>> \o SplitTab(Drop(s, i))

NoU == <<"N", "o", ".", "U">>
LimitU == <<"L", "i", "m", "i", "t", "U">>
LimitL == <<"L", "i", "m", "i", "t", "L">>
BVDSS1 == <<"B", "V", "D", "S", "S", "1">>
IDSS1 == <<"I", "D", "S", "S", "1">>

\* a str cell of a frame
Str(s) == [kind |-> "str", s |-> s]

----------------------------------------------------------------------------
(* rawdata_analyzer_project: CPLogParser._extract_header_info *)

\* the number of leading lines searched for header information
HeaderScanLines == 20

\* the labels of the header patterns, by key
HeaderPatterns ==
    [program_name |-> <<"P", "r", "o", "g", "r", "a", "m", " ", "n", "a", "m", "e">>,
     lot_number   |-> <<"L", "o", "t", " ", "n", "u", "m", "b", "e", "r">>,
     wafer_number |-> <<"W", "a", "f", "e", "r", " ", "n", "u", "m", "b", "e", "r">>,
     test_date    |-> <<"D", "a", "t", "e">>,
     test_time    |-> <<"T", "i", "m", "e">>]

\* the positions at which re.search(label + r'\s+(.*)', line) can match: the
\* label followed by whitespace (the newline that ends the line included)
LabelMatches(line, label) ==
    { i \in 1..(Len(line) - Len(label) + 1) :
        /\ SubSeq(line, i, i + Len(label) - 1) = label
        /\ \/ i + Len(label) > Len(line)
           \/ line[i + Len(label)] \in Whitespace }

\* the least and the greatest element of a set of numbers
Least(S) == CHOOSE i \in S : \A k \in S : i <= k
Greatest(S) == CHOOSE i \in S : \A k \in S : k <= i

\* match.group(1).strip() of the leftmost match
LabelValue(line, label) ==
    Strip(Drop(line, Least(LabelMatches(line, label)) + Len(label) - 1))

\* the lines among the first n that match the pattern of key
HeaderHits(lines, n, key) ==
    { i \in 1..n : LabelMatches(lines[i], HeaderPatterns[key]) # {} }

\* the loop over lines[:20]: each key is set by the last line that matches
HeaderInfoOf(lines, n) ==
    [key \in { k \in DOMAIN HeaderPatterns : HeaderHits(lines, n, k) # {} } |->
        LabelValue(lines[Greatest(HeaderHits(lines, n, key))], HeaderPatterns[key])]

\* _extract_header_info(lines)
extract_header_info(lines) ==
    HeaderInfoOf(lines, IF Len(lines) < HeaderScanLines
                        THEN Len(lines) ELSE HeaderScanLines)

----------------------------------------------------------------------------
(* rawdata_analyzer_project: CPLogParser._extract_parameter_data *)

RECURSIVE ScanMarkers(_, _, _, _, _)
\* the loop that locates the 'No.U', 'LimitU' and 'LimitL' lines and the first
\* data line (0 where the code has -1)
ScanMarkers(lines, i, p, u, l) ==
    IF i > Len(lines) THEN [param |-> p, upper |-> u, lower |-> l, start |-> 0]
    ELSE IF StartsWith(lines[i], NoU) THEN ScanMarkers(lines, i + 1, i, u, l)
    ELSE IF StartsWith(lines[i], LimitU) THEN ScanMarkers(lines, i + 1, p, i, l)
    ELSE IF StartsWith(lines[i], LimitL) THEN ScanMarkers(lines, i + 1, p, u, i)
    ELSE IF p # 0 /\ u # 0 /\ l # 0 /\ lines[i] # <<>> /\ lines[i][1] \in Digits
         THEN [param |-> p, upper |-> u, lower |-> l, start |-> i]
    ELSE ScanMarkers(lines, i + 1, p, u, l)

\* the loop of _parse_limits over the first n parameter names: a dict, so that
\* the last column of a name decides
LimitsOfParts(parts, param_names, n) ==
    [name \in {param_names[i] : i \in 1..n} |->
        parse_scientific_notation(
            parts[CHOOSE i \in 1..n :
                     /\ param_names[i] = name
                     /\ \A k \in 1..n : param_names[k] = name => k <= i])]

LimitsOfSplit(parts, param_names) ==
    LimitsOfParts(parts, param_names,
                  IF Len(parts) < Len(param_names) THEN Len(parts)
                  ELSE Len(param_names))

\* _parse_limits(limit_line, param_names)
parse_limits(limit_line, param_names) ==
    LimitsOfSplit(SplitTab(Strip(limit_line)), param_names)

\* the "Store limits for each parameter" loop
StoreLimits(limits, upper_limits, lower_limits) ==
    [param \in DOMAIN limits \cup DOMAIN upper_limits |->
        IF param \in DOMAIN upper_limits
        THEN ("upper" :> upper_limits[param])
             @@ ("lower" :> IF param \in DOMAIN lower_limits
                            THEN lower_limits[param] ELSE None)
        ELSE limits[param]]

RECURSIVE CollectRows(_, _, _)
RECURSIVE CollectRow(_, _, _, _)
\* the data loop: blank lines are skipped, the first other line that is not
\* a data row ends it
CollectRows(lines, i, ncols) ==
    IF i > Len(lines) THEN <<>>
    ELSE IF Strip(lines[i]) = <<>> THEN CollectRows(lines, i + 1, ncols)
    ELSE CollectRow(lines, i, ncols, SplitTab(Strip(lines[i])))

CollectRow(lines, i, ncols, parts) ==
    IF Len(parts) >= ncols /\ StrIsDigit(parts[1])
    THEN <<parts>> \o CollectRows(lines, i + 1, ncols)
    ELSE <<>>

NumericOfMatch(t, m) ==
    IF m.ok /\ m.g1end = Len(t) + 1 THEN FloatOfMatch(m) ELSE None

NumericOfStripped(t) == NumericOfMatch(t, ReMatch(t))

\* pd.to_numeric(errors='coerce') of a str cell
to_numeric(s) == NumericOfStripped(Strip(s))

\* pd.DataFrame(data_lines, columns=param_names) raises when a row is longer
\* than the header
FrameRaises(data_lines, param_names) ==
    \E i \in 1..Len(data_lines) : Len(data_lines[i]) > Len(param_names)

\* the columns converted by pd.to_numeric
NumericColumns == {NoU, <<"X">>, <<"Y">>, <<"B", "i", "n">>}

\* the conversion of one cell of a column
ConvertCell(name, cell) ==
    IF name \in NumericColumns
    THEN to_numeric(cell)
    ELSE parse_scientific_notation(cell)

\* one row of the frame after the conversion of its columns
ConvertRow(parts, param_names) ==
    [name \in {param_names[i] : i \in 1..Len(param_names)} |->
        ConvertCell(name,
                    parts[CHOOSE i \in 1..Len(param_names) : param_names[i] = name])]

\* the frame of _extract_parameter_data: its rows, whether building it
\* raised, and self.parameter_limits, which was stored before
BuildFrame(data_lines, param_names, stored) ==
    IF FrameRaises(data_lines, param_names)
    THEN [rows |-> <<>>, raised |-> TRUE, limits |-> stored]
    ELSE [rows |-> [i \in 1..Len(data_lines) |->
                       ConvertRow(data_lines[i], param_names)],
          raised |-> FALSE, limits |-> stored]

\* _extract_parameter_data from "Extract parameter names" on
ExtractWithNames(lines, limits, sc, param_names) ==
    BuildFrame(CollectRows(lines, sc.start, Len(param_names)), param_names,
               StoreLimits(limits, parse_limits(lines[sc.upper], param_names),
                           parse_limits(lines[sc.lower], param_names)))

\* _extract_parameter_data after the loop that locates the markers
ExtractAt(lines, limits, sc) ==
    IF sc.param = 0 \/ sc.start = 0
    THEN [rows |-> <<>>, raised |-> FALSE, limits |-> limits]
    ELSE ExtractWithNames(lines, limits, sc, SplitTab(Strip(lines[sc.param])))

\* _extract_parameter_data: the frame's rows, whether the call raised, and
\* self.parameter_limits after it
extract_parameter_data(lines, limits) ==
    ExtractAt(lines, limits, ScanMarkers(lines, 1, 0, 0, 0))

----------------------------------------------------------------------------
(* rawdata_analyzer_project: parse_log_file, get_limits, set_limits *)

\* the rest of parse_log_file: the header information and the file name are
\* added to every row of the frame
FrameOfFile(file, header_info, ex) ==
    [df |-> [i \in 1..Len(ex.rows) |->
                [cells |-> ex.rows[i],
                 header |-> [k \in DOMAIN header_info |-> Str(header_info[k])],
                 file_name |-> file.name]],
     raised |-> ex.raised,
     limits |-> ex.limits]

\* parse_log_file: the frame it returns, whether the except branch was
\* taken, and self.parameter_limits after it
parse_log_file(file, limits) ==
    FrameOfFile(file, extract_header_info(file.lines),
                extract_parameter_data(file.lines, limits))

\* get_limits(parameter)
get_limits(parameter) ==
    IF parameter \in DOMAIN parameter_limits
    THEN parameter_limits[parameter]
    ELSE ("upper" :> None) @@ ("lower" :> None)

\* d[key] = value when value is not None
SetUnlessNone(d, key, value) ==
    IF value # None THEN (key :> value) @@ d ELSE d

\* self.parameter_limits after set_limits(parameter, lower, upper)
set_limits(limits, parameter, lower, upper) ==
    (parameter :>
        SetUnlessNone(SetUnlessNone(IF parameter \in DOMAIN limits
                                    THEN limits[parameter] ELSE <<>>,
                                    "lower", lower),
                      "upper", upper))
    @@ limits

----------------------------------------------------------------------------
(* The tokens the parser is applied to: sign, literal, exponent and suffix *)
(* parts in every combination, with and without surrounding blanks.       *)

\* unsigned numeric literals without exponent
TokLiterals ==
    { <<"5">>, <<"0">>, <<"5", "0", ".", "0", "0">>, <<"9", "9", "9", ".", "9">>,
      <<"4", ".", "0", "0", "0">>, <<"9", "0", "0", ".", "0">>, <<".", "5">>,
      <<"1", ".", "2", "0">>, <<"9", "9", "9", ".", "9", "0">> }

TokExps == {<<>>, <<"E", "-", "0", "8">>, <<"e", "3">>, <<"E", "+", "2">>}

\* alphabetic units: a bare prefix, a prefix with a dimension, a dimension
TokUnits ==
    { <<"n">>, <<"u">>, <<"m">>, <<"k">>, <<"M">>, <<"G">>, <<"V">>,
      <<"u", "A">>, <<"n", "A">>, <<"m", "O", "H", "M">>, <<"k", "H">>,
      <<"O", "H", "M">> }

\* the tokens: some without a numeric literal, and every sign, literal,
\* exponent and suffix (nothing, a unit, the tester's dash, blanks)
Tokens ==
    { <<>>, <<" ">>, <<" ", " ">>, <<"-">>, <<"+">>, <<".">>, <<"-", "-">>,
      <<" ", "-", " ">>, <<" ", "9", "9", "9", ".", "9", " ">>,
      <<"L", "i", "m", "i", "t", "U">>, <<"5", ".">>, <<"5", ".", "-">> }
    \cup
    { sg \o l \o x \o sf :
        sg \in {<<>>, <<"-">>, <<"+">>}, l \in TokLiterals, x \in TokExps,
        sf \in {<<>>, <<"-">>, <<" ">>, <<" ", "m">>} \cup TokUnits }

----------------------------------------------------------------------------
(* cp_analyzer_project: CPLogParser *)

\* self.target_params
target_params == {BVDSS1}

\* the extensions is_cp_log accepts
LogExtensions ==
    { <<".", "t", "x", "t">>, <<".", "l", "o", "g">>, <<".", "d", "a", "t">>, <<>> }

\* the number of leading lines is_cp_log reads
LogScanLines == 10

\* the number of leading lines _extract_metadata searches
MetadataScanLines == 10

\* the distance from the header row to the first data row
DataOffset == 7

\* str.lower() of one character: the capitals are CodePoints[11..36]
LowerChar(c) ==
    IF \E i \in 11..36 : CodePoints[i] = c
    THEN CodePoints[(CHOOSE i \in 11..36 : CodePoints[i] = c) + 26]
    ELSE c

\* str.lower()
Lower(s) == [i \in 1..Len(s) |-> LowerChar(s[i])]

\* lines[:n]
FirstLines(lines, n) == SubSeq(lines, 1, IF Len(lines) < n THEN Len(lines) ELSE n)

\* p in ''.join(lines): a match lies within one line
AnyContains(lines, p) == \E i \in 1..Len(lines) : Contains(lines[i], p)

\* is_cp_log(file_path)
is_cp_log(file) ==
    /\ Lower(file.ext) \in LogExtensions
    /\ AnyContains(FirstLines(file.lines, LogScanLines), NoU)
    /\ \E param \in target_params :
          AnyContains(FirstLines(file.lines, LogScanLines), param)

RECURSIVE SelectFiles(_)
\* [f for f in all_files if self.is_cp_log(f)]
SelectFiles(files) ==
    IF files = <<>> THEN <<>>
    ELSE (IF is_cp_log(Head(files)) THEN <<Head(files)>> ELSE <<>>)
         \o SelectFiles(Tail(files))

\* the labels _extract_metadata looks for and the keys it sets
Metadata ==
    [Lot   |-> [label |-> <<"L", "o", "t", " ", "n", "u", "m", "b", "e", "r">>,
                key   |-> <<"L", "o", "t">>],
     Wafer |-> [label |-> <<"W", "a", "f", "e", "r", " ", "n", "u", "m", "b", "e", "r">>,
                key   |-> <<"W", "a", "f", "e", "r">>]]
DeviceKey == <<"D", "e", "v", "i", "c", "e">>

\* the lines of the first n that hold label and a second tab-separated part
MetadataHits(lines, n, label) ==
    { i \in 1..n : /\ Contains(lines[i], label)
                   /\ Len(SplitTab(Strip(lines[i]))) > 1 }

\* one loop of _extract_metadata: the key set from the first such line
MetadataOf(lines, n, label, key) ==
    IF MetadataHits(lines, n, label) = {} THEN <<>>
    ELSE key :> Str(SplitTab(Strip(lines[Least(MetadataHits(lines, n, label))]))[2])

\* _extract_metadata(lines)
extract_metadata(lines) ==
    MetadataOf(lines, Len(FirstLines(lines, MetadataScanLines)),
               Metadata.Lot.label, Metadata.Lot.key)
    @@ MetadataOf(lines, Len(FirstLines(lines, MetadataScanLines)),
                  Metadata.Wafer.label, Metadata.Wafer.key)

\* the lines that hold 'No.U'
HeaderLinesOf(lines) == { i \in 1..Len(lines) : Contains(lines[i], NoU) }

\* _extract_headers(lines): the index of the first such line (0 for None) and
\* its parts
extract_headers(lines) ==
    IF HeaderLinesOf(lines) = {} THEN [header_idx |-> 0, headers |-> <<>>]
    ELSE [header_idx |-> Least(HeaderLinesOf(lines)),
          headers |-> SplitTab(Strip(lines[Least(HeaderLinesOf(lines))]))]

\* re.sub(r'[A-Za-z]', '', s), then s.replace('-', '')
RemoveChars(s, C) == SelectSeq(s, LAMBDA c : c \notin C)

\* float(s) for the digits d1 before and d2 after the point
FloatOfDigits(neg, d1, d2) ==
    Number((IF neg THEN -1 ELSE 1) * DigitsVal(d1 \o d2), 0 - Len(d2))

\* float(s) for an unsigned s without exponent: digits, and a point before,
\* within or after them; None for ValueError
FloatUnsigned(neg, s, i) ==
    IF i > Len(s)
    THEN IF s = <<>> THEN None ELSE FloatOfDigits(neg, s, <<>>)
    ELSE IF s[i] = "." /\ RunEnd(s, i + 1, Digits) > Len(s) /\ Len(s) > 1
    THEN FloatOfDigits(neg, SubSeq(s, 1, i - 1), Drop(s, i))
    ELSE None

\* float(s) for a stripped s
FloatStripped(s) ==
    IF s # <<>> /\ s[1] \in SignChars
    THEN FloatUnsigned(s[1] = "-", Tail(s), RunEnd(Tail(s), 1, Digits))
    ELSE FloatUnsigned(FALSE, s, RunEnd(s, 1, Digits))

\* float(s) for a text without letters
Float(s) == FloatStripped(Strip(s))

\* the 'n', 'u' and 'm' tests on limit_str.lower(), as a power of ten
LimitScale(lower_str) ==
    IF Contains(lower_str, <<"n">>) THEN -9
    ELSE IF Contains(lower_str, <<"u">>) THEN -6
    ELSE IF Contains(lower_str, <<"m">>) /\ ~Contains(lower_str, <<"o", "h", "m">>)
    THEN -3
    ELSE 0

\* value scaled as limit_str says
ScaledLimit(value, limit_str) ==
    IF value = None THEN None
    ELSE Number(value.m, value.e + LimitScale(Lower(limit_str)))

\* _parse_limit_value(limit_str)
parse_limit_value(limit_str) ==
    IF limit_str = <<>> THEN None
    ELSE ScaledLimit(Float(RemoveChars(RemoveChars(limit_str, Letters), {"-"})),
                     limit_str)

\* the positions of the target parameters in the header
TargetColumns(headers) == { i \in 1..Len(headers) : headers[i] \in target_params }

\* one limit row: the bound of each target parameter, from its last column
LimitRowOf(parts, headers) ==
    IF Len(parts) >= Len(headers)
    THEN [p \in { headers[i] : i \in TargetColumns(headers) } |->
            parse_limit_value(parts[Greatest({ i \in TargetColumns(headers) :
                                                headers[i] = p })])]
    ELSE <<>>

\* the limit row expected at line at, when it is there and holds the label
LimitRowAt(lines, at, label, headers) ==
    IF at <= Len(lines) /\ Contains(lines[at], label)
    THEN LimitRowOf(SplitTab(Strip(lines[at])), headers)
    ELSE <<>>

\* limits[header] with the bounds the two rows gave
LimitsOfRows(uppers, lowers) ==
    [p \in DOMAIN uppers \cup DOMAIN lowers |->
        (IF p \in DOMAIN uppers THEN "upper" :> uppers[p] ELSE <<>>)
        @@ (IF p \in DOMAIN lowers THEN "lower" :> lowers[p] ELSE <<>>)]

\* _extract_limits(lines, header_idx, headers)
extract_limits(lines, header_idx, headers) ==
    LimitsOfRows(LimitRowAt(lines, header_idx + 1, LimitU, headers),
                 LimitRowAt(lines, header_idx + 2, LimitL, headers))

\* data_dict for the parts of one data row
DataDict(parts, headers, metadata) ==
    (IF \E j \in 1..Len(headers) : headers[j] = NoU
     THEN DeviceKey :> Str(parts[Greatest({ j \in 1..Len(headers) : headers[j] = NoU })])
     ELSE <<>>)
    @@ [h \in { headers[j] : j \in 1..Len(headers) } |->
          Str(parts[Greatest({ j \in 1..Len(headers) : headers[j] = h })])]
    @@ metadata

RECURSIVE DataList(_, _, _, _)
\* the loop of _extract_data from line i on
DataList(lines, i, headers, metadata) ==
    IF i > Len(lines) THEN <<>>
    ELSE (IF Strip(lines[i]) # <<>>
             /\ Len(SplitTab(Strip(lines[i]))) >= Len(headers)
          THEN << DataDict(SplitTab(Strip(lines[i])), headers, metadata) >>
          ELSE <<>>)
         \o DataList(lines, i + 1, headers, metadata)

\* _extract_data(lines, header_idx, headers, metadata): the rows of the frame
extract_data(lines, header_idx, headers, metadata) ==
    DataList(lines, header_idx + DataOffset, headers, metadata)

\* parse_file once the header has been looked for
ParseWithHeader(lines, h) ==
    IF h.header_idx = 0
    THEN [found |-> FALSE, data |-> <<>>, limits |-> <<>>]
    ELSE [found |-> TRUE,
          data |-> extract_data(lines, h.header_idx, h.headers, extract_metadata(lines)),
          limits |-> extract_limits(lines, h.header_idx, h.headers)]

\* parse_file(file_path): found is FALSE where the code returns (None, None)
parse_file(file) == ParseWithHeader(file.lines, extract_headers(file.lines))

\* a merge in which the entry of a later file replaces the one held
MergeLimits_LastWins(all_limits, limits) ==
    [p \in DOMAIN all_limits \cup DOMAIN limits |->
        IF p \in DOMAIN limits THEN limits[p] ELSE all_limits[p]]

\* the loop body of parse_all_files on all_limits
MergeLimits(all_limits, limits) ==
    [p \in DOMAIN all_limits \cup DOMAIN limits |->
        IF p \in DOMAIN all_limits THEN all_limits[p] ELSE limits[p]]

----------------------------------------------------------------------------
(* rawdata_analyzer_project: CPDataAnalyzer.calculate_yield *)

\* a column of a test value, named as in the 'No.U' row
Cell(name) == [kind |-> "cell", name |-> name]

\* a column of header information
Info(name) == [kind |-> "info", name |-> name]

\* a pandas DataFrame: its columns and its rows, in index order
DataFrame(columns, rows) == [kind |-> "frame", columns |-> columns, rows |-> rows]

\* row[column], missing where the row's file had no such column
At(row, column) ==
    IF column.kind = "cell"
    THEN IF column.name \in DOMAIN row.cells THEN row.cells[column.name] ELSE None
    ELSE IF column.name \in DOMAIN row.header THEN row.header[column.name] ELSE None

\* data[parameter] >= lower for one value; False for a missing value
GreaterEqual(v, bound) == IsNumber(v) /\ ~NumLess(v, bound)

\* data[parameter] <= upper for one value; False for a missing value
LessEqual(v, bound) == IsNumber(v) /\ ~NumLess(bound, v)

\* a pass column with exclusive bounds
pass_Exclusive(v, lower, upper) ==
    /\ lower # None => IsNumber(v) /\ NumLess(lower, v)
    /\ upper # None => IsNumber(v) /\ NumLess(v, upper)

\* data['pass'] for one value
pass(v, lower, upper) ==
    IF lower # None /\ upper # None
    THEN GreaterEqual(v, lower) /\ LessEqual(v, upper)
    ELSE IF lower # None THEN GreaterEqual(v, lower)
    ELSE IF upper # None THEN LessEqual(v, upper)
    ELSE TRUE

RECURSIVE StrLess(_, _)
\* a < b for two Python strings
StrLess(a, b) ==
    IF b = <<>> THEN FALSE
    ELSE IF a = <<>> THEN TRUE
    ELSE IF a[1] = b[1] THEN StrLess(Tail(a), Tail(b))
    ELSE Ord(a[1]) < Ord(b[1])

RECURSIVE SortKeys(_)
\* the group keys in ascending order, as groupby (sort=True) lists them
SortKeys(S) ==
    IF S = {} THEN <<>>
    ELSE LET k == CHOOSE k \in S : \A o \in S : ~StrLess(o.s, k.s)
         IN  <<k>> \o SortKeys(S \ {k})

\* the group keys of the frame: groupby drops the rows without a key
GroupKeys(rows, group_by) ==
    { At(rows[i], group_by) : i \in 1..Len(rows) } \ {None}

\* the rows of the group of key
GroupOf(rows, group_by, key) ==
    { i \in 1..Len(rows) : At(rows[i], group_by) = key }

\* data['pass'].sum() over the rows S
Passed(rows, S, parameter, lower, upper) ==
    Cardinality({ i \in S : pass(At(rows[i], parameter), lower, upper) })

RECURSIVE GCD(_, _)
GCD(a, b) == IF b = 0 THEN a ELSE GCD(b, a % b)

\* the quotient n / d of two naturals, d > 0
Fraction(n, d) == [n |-> n \div GCD(n, d), d |-> d \div GCD(n, d)]

\* one row of the grouped result
GroupYield(key, total, passed) ==
    [key |-> key, total |-> total, passed |-> passed, failed |-> total - passed,
     yield_pct |-> Fraction(passed * 100, total)]

\* the grouped result, one row per key
GroupedYield(rows, keys, parameter, lower, upper, group_by) ==
    [k \in 1..Len(keys) |->
        GroupYield(keys[k],
                   Cardinality(GroupOf(rows, group_by, keys[k])),
                   Passed(rows, GroupOf(rows, group_by, keys[k]),
                          parameter, lower, upper))]

\* the row of the overall result
OverallYield(total, passed) ==
    [total |-> total, passed |-> passed, failed |-> total - passed,
     yield_pct |-> IF total > 0 THEN Fraction(passed * 100, total)
                   ELSE Fraction(0, 1)]

\* the overall row, with the group column 'All' when a group_by was asked
OverallRow(row, group_by) ==
    IF group_by # None THEN row @@ [key |-> Str(<<"A", "l", "l">>)] ELSE row

calculate_yield(d, parameter, lower, upper, group_by) ==
    IF d = None \/ parameter \notin d.columns
    THEN DataFrame({}, <<>>)
    ELSE IF group_by # None /\ group_by \in d.columns
    THEN DataFrame({"total", "passed", "failed", "yield_pct", "key"},
                   GroupedYield(d.rows, SortKeys(GroupKeys(d.rows, group_by)),
                                parameter, lower, upper, group_by))
    ELSE DataFrame({"total", "passed", "failed", "yield_pct"}
                       \cup (IF group_by # None THEN {"key"} ELSE {}),
                   << OverallRow(OverallYield(Len(d.rows),
                                              Passed(d.rows, 1..Len(d.rows),
                                                     parameter, lower, upper)),
                                 group_by) >>)

----------------------------------------------------------------------------
(* rawdata_analyzer_project: the statistics of CPDataAnalyzer.  A float is
   kept as the exact quotient it stands for, a standard deviation as the
   square root of its variance and a capability index as a quotient over
   the standard deviation, so that no value is rounded. *)

\* the float of a parsed value, as a quotient of integers
Rat(v) ==
    Fraction(v.m * Pow10(IF v.e > 0 THEN v.e ELSE 0),
             Pow10(IF v.e < 0 THEN 0 - v.e ELSE 0))

\* a + b, a - b, a * b and a / b (b > 0)
Arith(a, op, b) ==
    CASE op = "+" -> Fraction(a.n * b.d + b.n * a.d, a.d * b.d)
      [] op = "-" -> Fraction(a.n * b.d - b.n * a.d, a.d * b.d)
      [] op = "*" -> Fraction(a.n * b.n, a.d * b.d)
      [] op = "/" -> Fraction(a.n * b.d, a.d * b.n)

\* the column of the rows S without its missing values (dropna), in order
Values(rows, S, column) ==
    SelectSeq([i \in 1..Len(rows) |->
                  IF i \in S THEN At(rows[i], column) ELSE None],
              LAMBDA v : v # None)

\* count, mean(), std() (ddof = 1), min() and max() of a series, which skip
\* the missing values and are NaN where too few values are left
Describe(values) ==
    LET RECURSIVE Total(_)
        Total(s) == IF s = <<>> THEN Fraction(0, 1)
                    ELSE Arith(Head(s), "+", Total(Tail(s)))
        n    == Len(values)
        x    == [i \in 1..n |-> Rat(values[i])]
        mean == Arith(Total(x), "/", Fraction(n, 1))
        sq   == [i \in 1..n |-> Arith(Arith(x[i], "-", mean), "*",
                                      Arith(x[i], "-", mean))]
    IN  [count |-> n,
         mean  |-> IF n = 0 THEN None ELSE mean,
         std   |-> IF n < 2 THEN None
                   ELSE [kind |-> "sqrt",
                         of |-> Arith(Total(sq), "/", Fraction(n - 1, 1))],
         min   |-> IF n = 0 THEN None
                   ELSE CHOOSE v \in {values[i] : i \in 1..n} :
                           \A i \in 1..n : ~NumLess(values[i], v),
         max   |-> IF n = 0 THEN None
                   ELSE CHOOSE v \in {values[i] : i \in 1..n} :
                           \A i \in 1..n : ~NumLess(v, values[i])]

\* get_parameter_stats(parameter, group_by).  A row is made for len records
\* with the given values: 'count' is passed, the std is taken when len > 1
\* and is 0 otherwise
get_parameter_stats(d, parameter, group_by) ==
    LET StatsRow(count, len, values) ==
            [count |-> count,
             mean  |-> Describe(values).mean,
             std   |-> IF len > 1 THEN Describe(values).std
                       ELSE [kind |-> "sqrt", of |-> Fraction(0, 1)],
             min   |-> Describe(values).min,
             max   |-> Describe(values).max]
    IN
    IF d = None \/ parameter \notin d.columns
    THEN DataFrame({}, <<>>)
    ELSE IF group_by # None /\ group_by \in d.columns
    THEN DataFrame({"key", "count", "mean", "std", "min", "max"},
                   LET keys == SortKeys(GroupKeys(d.rows, group_by))
                   IN  [k \in 1..Len(keys) |->
                          LET G == GroupOf(d.rows, group_by, keys[k])
                              values == Values(d.rows, G, parameter)
                          IN  StatsRow(Len(values), Cardinality(G), values)
                              @@ [key |-> keys[k]]])
    ELSE DataFrame({"count", "mean", "std", "min", "max"}
                       \cup (IF group_by # None THEN {"key"} ELSE {}),
                   << OverallRow(StatsRow(Len(d.rows), Len(d.rows),
                                          Values(d.rows, 1..Len(d.rows), parameter)),
                                 group_by) >>)

\* a turn that puts inverted limits in order first; the body of
\* CapabilityRow with the two limits exchanged
CapabilityRow_Ordered(name, values, lower, upper) ==
    LET swap == lower # None /\ upper # None /\ NumLess(upper, lower)
        lo   == IF swap THEN upper ELSE lower
        hi   == IF swap THEN lower ELSE upper
        mean == Describe(values).mean
        std  == Describe(values).std
        cpu  == [num |-> Arith(Rat(hi), "-", mean), times |-> 3, std |-> std]
        cpl  == [num |-> Arith(mean, "-", Rat(lo)), times |-> 3, std |-> std]
    IN  [key   |-> name,
         count |-> Len(values),
         mean  |-> mean,
         std   |-> std,
         cp    |-> IF std.of.n > 0 /\ lo # None /\ hi # None
                   THEN [num |-> Arith(Rat(hi), "-", Rat(lo)),
                         times |-> 6, std |-> std]
                   ELSE None,
         cpk   |-> IF std.of.n = 0 THEN None
                   ELSE IF hi # None /\ lo # None
                   THEN (IF cpl.num.n * cpu.num.d < cpu.num.n * cpl.num.d
                         THEN cpl ELSE cpu)
                   ELSE IF hi # None THEN cpu
                   ELSE cpl]

\* the result of calculate_cp_capability for one turn of its loop: the name
\* from group_names and the values of the group, dropna done
CapabilityRow(name, values, lower, upper) ==
    LET mean == Describe(values).mean
        std  == Describe(values).std
        cpu  == [num |-> Arith(Rat(upper), "-", mean), times |-> 3, std |-> std]
        cpl  == [num |-> Arith(mean, "-", Rat(lower)), times |-> 3, std |-> std]
    IN  [key   |-> name,
         count |-> Len(values),
         mean  |-> mean,
         std   |-> std,
         cp    |-> IF std.of.n > 0 /\ lower # None /\ upper # None
                   THEN [num |-> Arith(Rat(upper), "-", Rat(lower)),
                         times |-> 6, std |-> std]
                   ELSE None,
         cpk   |-> IF std.of.n = 0 THEN None
                   ELSE IF upper # None /\ lower # None
                   THEN (IF cpl.num.n * cpu.num.d < cpu.num.n * cpl.num.d
                         THEN cpl ELSE cpu)
                   ELSE IF upper # None THEN cpu
                   ELSE cpl]

\* calculate_cp_capability(parameter, lower, upper, group_by): the names are
\* those of unique(), the values of the column in the order of their first
\* appearance, the missing value among them; the groups are those of
\* groupby; zip pairs them
calculate_cp_capability(d, parameter, lower, upper, group_by) ==
    IF d = None \/ parameter \notin d.columns
    THEN DataFrame({}, <<>>)
    ELSE IF lower = None /\ upper = None
    THEN DataFrame({}, <<>>)
    ELSE DataFrame(
           {"key", "count", "mean", "std", "cp", "cpk"},
           LET RECURSIVE Unique(_, _)
               Unique(values, seen) ==
                   IF values = <<>> THEN <<>>
                   ELSE IF Head(values) \in seen THEN Unique(Tail(values), seen)
                   ELSE <<Head(values)>>
                        \o Unique(Tail(values), seen \cup {Head(values)})
               grouped == group_by # None /\ group_by \in d.columns
               groups == IF grouped
                         THEN [k \in 1..Cardinality(GroupKeys(d.rows, group_by)) |->
                                 GroupOf(d.rows, group_by,
                                         SortKeys(GroupKeys(d.rows, group_by))[k])]
                         ELSE IF d.rows = <<>> THEN <<>>
                         ELSE <<1..Len(d.rows)>>
               group_names ==
                   IF grouped
                   THEN Unique([i \in 1..Len(d.rows) |-> At(d.rows[i], group_by)], {})
                   ELSE <<Str(<<"A", "l", "l">>)>>
               turns == SelectSeq([k \in 1..Len(groups) |->
                                     [name |-> group_names[k],
                                      values |-> Values(d.rows, groups[k], parameter)]],
                                  LAMBDA g : Len(g.values) >= 2)
           IN  [k \in 1..Len(turns) |->
                  CapabilityRow(turns[k].name, turns[k].values, lower, upper)])

\* filter_data(conditions): the rows that meet every condition on a column
\* the frame has; a condition gives the values the column may have
filter_data(d, conditions) ==
    IF d = None THEN DataFrame({}, <<>>)
    ELSE DataFrame(d.columns,
                   SelectSeq(d.rows,
                             LAMBDA r : \A c \in conditions :
                                 c.column \in d.columns
                                 => At(r, c.column) \in c.values))

\* get_parameter_data(parameter, group_by): the dict of the lists of values
get_parameter_data(d, parameter, group_by) ==
    [kind |-> "dict",
     items |->
        IF d = None \/ parameter \notin d.columns THEN <<>>
        ELSE IF group_by # None /\ group_by \in d.columns
        THEN [key \in GroupKeys(d.rows, group_by) |->
                LET at == SelectSeq([i \in 1..Len(d.rows) |-> i],
                                    LAMBDA i : i \in GroupOf(d.rows, group_by, key))
                IN  [j \in 1..Len(at) |-> At(d.rows[at[j]], parameter)]]
        ELSE Str(<<"a", "l", "l">>)
             :> [i \in 1..Len(d.rows) |-> At(d.rows[i], parameter)]]

----------------------------------------------------------------------------
(* Initial values of each component *)

NoCall == [kind |-> "no call"]

InitTok ==
    /\ value_str = <<>>
    /\ ret = NoCall

InitRawWith(files) ==
    /\ log_files = files
    /\ idx = 0
    /\ all_data = <<>>
    /\ parameter_limits = <<>>
    /\ combined = <<>>
    /\ pc = "start"
    /\ set_calls = <<>>

InitAnaWith(d) ==
    /\ data = d
    /\ yield_data = NoCall
    /\ yield_call = NoCall
    /\ query = NoCall
    /\ answer = NoCall

InitCPWith(files) ==
    /\ cp_files = files
    /\ cp_log_files = <<>>
    /\ cp_ret = NoCall
    /\ cp_idx = 0
    /\ cp_all_data = <<>>
    /\ cp_all_limits = <<>>
    /\ cp_pc = "start"

----------------------------------------------------------------------------
(* The log files the rawdata parser is run on *)

RECURSIVE JoinTab(_)
\* '\t'.join(fields)
JoinTab(fields) ==
    IF Len(fields) = 1 THEN fields[1]
    ELSE fields[1] \o <<TAB>> \o JoinTab(Tail(fields))

\* the limit and data cells of the files
Sample ==
    [V900 |-> <<"9", "0", "0", ".", "0", "V">>,
     V850 |-> <<"8", "5", "0", ".", "0", "V">>,
     V660 |-> <<"6", "6", "0", ".", "0", "V">>,
     V600 |-> <<"6", "0", "0", ".", "0", "V">>,
     V700 |-> <<"7", "0", "0", ".", "0", "V">>,
     I4u  |-> <<"4", ".", "0", "0", "0", "u">>,
     I1n  |-> <<"1", ".", "2", "0", "E", "-", "0", "8">>]

LotLine == JoinTab(<<HeaderPatterns.lot_number, <<"L", "1">>>>)
WaferLine == JoinTab(<<HeaderPatterns.wafer_number, <<"7">>>>)
HeaderLine == JoinTab(<<NoU, BVDSS1>>)
DataLines == << <<>>, JoinTab(<<<<"1">>, Sample.V700>>), JoinTab(<<<<"2">>, Sentinel>>) >>

\* a file with the given limit cells for BVDSS1
FullFile(upper, lower) ==
    <<LotLine, WaferLine, HeaderLine,
      JoinTab(<<LimitU, upper>>), JoinTab(<<LimitL, lower>>)>> \o DataLines

\* the contents of the files parse_all_logs is run on
FileContents ==
    { FullFile(Sample.V900, Sample.V660), FullFile(Sample.V850, Sample.V660),
      FullFile(Sample.V900, Sample.V600),
      \* limit rows whose cells hold no value
      FullFile(Sentinel, Sentinel),
      \* no limit rows
      <<LotLine, HeaderLine>> \o DataLines,
      \* no 'No.U' row
      <<LotLine, JoinTab(<<LimitU, Sample.V900>>), JoinTab(<<LimitL, Sample.V660>>)>> \o DataLines,
      \* one limit row only
      <<LotLine, HeaderLine, JoinTab(<<LimitL, Sample.V660>>)>> \o DataLines,
      <<LotLine, HeaderLine, JoinTab(<<LimitU, Sample.V900>>)>> \o DataLines,
      \* no data rows
      <<LotLine, HeaderLine, JoinTab(<<LimitU, Sample.V850>>), JoinTab(<<LimitL, Sample.V600>>)>>,
      \* a second parameter, no metadata
      <<JoinTab(<<NoU, BVDSS1, IDSS1>>),
        JoinTab(<<LimitU, Sample.V850, Sample.I4u>>),
        JoinTab(<<LimitL, Sample.V660, <<"-">>>>),
        JoinTab(<<<<"1">>, Sample.V700, Sample.I1n>>)>>,
      \* a data row longer than the header
      <<HeaderLine, JoinTab(<<LimitU, Sample.V850>>), JoinTab(<<LimitL, Sample.V600>>),
        JoinTab(<<<<"1">>, Sample.V700, Sample.I1n>>)>>,
      \* a date between the limit rows and the data rows
      <<HeaderLine, JoinTab(<<LimitU, Sample.V850>>), JoinTab(<<LimitL, Sample.V600>>),
        <<"2", "0", "2", "4", "-", "0", "1">>,
        JoinTab(<<<<"1">>, Sample.V700>>)>>,
      \* a line of text between data rows
      <<HeaderLine, JoinTab(<<LimitU, Sample.V850>>), JoinTab(<<LimitL, Sample.V600>>),
        JoinTab(<<<<"1">>, Sample.V700>>), <<>>, JoinTab(<<<<"2">>, Sample.V660>>),
        <<"E", "N", "D">>, JoinTab(<<<<"3">>, Sample.V700>>)>>,
      \* a data row whose last cell is empty
      <<HeaderLine, JoinTab(<<LimitU, Sample.V850>>), JoinTab(<<LimitL, Sample.V600>>),
        JoinTab(<<<<"1">>, Sample.V700>>), JoinTab(<<<<"2">>, <<>>>>),
        JoinTab(<<<<"3">>, Sample.V660>>)>> }

\* the largest number of files in the directory
MaxFiles == 2

\* the largest number of set_limits calls
MaxSetCalls == 1

\* the directories: every sequence of at most MaxFiles files, named by
\* their position
Directories(contents) ==
    UNION { { [i \in 1..n |-> [name |-> i, lines |-> c[i]]] :
                c \in [1..n -> contents] } : n \in 0..MaxFiles }

----------------------------------------------------------------------------
(* rawdata_analyzer_project: the operations of CPLogParser *)

\* set_limits(parameter, lower, upper)
SetLimits(parameter, lower, upper) ==
    /\ Len(set_calls) < MaxSetCalls
    /\ parameter_limits' = set_limits(parameter_limits, parameter, lower, upper)
    /\ set_calls' = Append(set_calls,
                           [parameter |-> parameter, lower |-> lower, upper |-> upper,
                            before |-> pc = "start"])
    /\ UNCHANGED <<log_files, idx, all_data, combined, pc, log,
                   tokVars, anaVars, cpVars>>

\* parse_all_logs when get_log_files() is empty
NoLogFiles ==
    /\ pc = "start"
    /\ log_files = <<>>
    /\ log' = Append(log, [kind |-> "no log files", file |-> 0])
    /\ combined' = <<>>
    /\ pc' = "done"
    /\ UNCHANGED <<log_files, idx, all_data, parameter_limits, set_calls,
                   tokVars, anaVars, cpVars>>

\* what parse_all_logs does with the result r of parse_log_file(file)
KeepResult(file, r) ==
    /\ parameter_limits' = r.limits
    /\ all_data' = IF r.df # <<>> THEN Append(all_data, r.df) ELSE all_data
    /\ log' = IF r.raised
              THEN Append(log, [kind |-> "error parsing", file |-> file.name])
              ELSE log

\* a loop that a raising parse ends
ParseLogFile_Aborting ==
    /\ pc \in {"start", "parsing"}
    /\ idx < Len(log_files)
    /\ KeepResult(log_files[idx + 1],
                  parse_log_file(log_files[idx + 1], parameter_limits))
    /\ idx' = IF parse_log_file(log_files[idx + 1], parameter_limits).raised
              THEN Len(log_files) ELSE idx + 1
    /\ pc' = "parsing"
    /\ UNCHANGED <<log_files, combined, set_calls, tokVars, anaVars, cpVars>>

\* one turn of parse_all_logs's loop: parse_log_file on the next file, the
\* frame kept when it is not empty
ParseLogFile ==
    /\ pc \in {"start", "parsing"}
    /\ idx < Len(log_files)
    /\ KeepResult(log_files[idx + 1],
                  parse_log_file(log_files[idx + 1], parameter_limits))
    /\ idx' = idx + 1
    /\ pc' = "parsing"
    /\ UNCHANGED <<log_files, combined, set_calls, tokVars, anaVars, cpVars>>

RECURSIVE Concat_Reversed(_)
\* a concatenation that puts later frames first
Concat_Reversed(frames) ==
    IF frames = <<>> THEN <<>> ELSE Concat_Reversed(Tail(frames)) \o Head(frames)

RECURSIVE Concat(_)
\* pd.concat(frames, ignore_index=True): the rows in order
Concat(frames) ==
    IF frames = <<>> THEN <<>> ELSE Head(frames) \o Concat(Tail(frames))

\* the end of parse_all_logs: the combined frame, or an empty one
Combine ==
    /\ pc = "parsing"
    /\ idx = Len(log_files)
    /\ combined' = Concat(all_data)
    /\ pc' = "done"
    /\ UNCHANGED <<log_files, idx, all_data, parameter_limits, set_calls, log,
                   tokVars, anaVars, cpVars>>

\* main's test of the frame parse_all_logs returned: df.empty, on which it
\* prints 'No data found' and returns 1
NoDataFound(df) == df = <<>>

Init ==
    /\ \E files \in Directories(FileContents) : InitRawWith(files)
    /\ log = <<>>
    /\ InitTok
    /\ InitAnaWith(None)
    /\ InitCPWith(<<>>)

Next ==
    \/ \E lower, upper \in {None, Number(500, 0), Number(1000, 0)} :
          SetLimits(BVDSS1, lower, upper)
    \/ NoLogFiles
    \/ ParseLogFile
    \/ Combine

Spec == Init /\ [][Next]_vars

----------------------------------------------------------------------------
(* A call of _parse_scientific_notation *)

\* the parser applied to a token, as the one call of the behaviour
ParseCall(t) ==
    /\ ret = NoCall
    /\ value_str' = t
    /\ ret' = parse_scientific_notation(t)
    /\ UNCHANGED <<rawVars, log, anaVars, cpVars>>

NextTok == \E t \in Tokens : ParseCall(t)

InitTokOnly ==
    /\ InitTok
    /\ InitRawWith(<<>>)
    /\ log = <<>>
    /\ InitAnaWith(None)
    /\ InitCPWith(<<>>)

SpecTok == InitTokOnly /\ [][NextTok]_vars

----------------------------------------------------------------------------
(* cp_analyzer_project: parse_all_files on a directory *)

\* the rows between the limit rows and the data rows
BiasLines ==
    [i \in 1..4 |->
        JoinTab(<<<<"B", "i", "a", "s", " ", "1">>, <<"1", ".", "0", "0", "m", "A">>>>)]

\* a file with the given two rows after the header row
CPFile(row1, row2) ==
    <<LotLine, WaferLine, HeaderLine, row1, row2>> \o BiasLines \o DataLines

TXT == <<".", "t", "x", "t">>

\* the files of data_dir: extension and contents
CPFileContents ==
    { [ext |-> TXT,
       lines |-> CPFile(JoinTab(<<LimitU, Sample.V900>>), JoinTab(<<LimitL, Sample.V660>>))],
      [ext |-> TXT,
       lines |-> CPFile(JoinTab(<<LimitU, Sample.V850>>), JoinTab(<<LimitL, Sample.V660>>))],
      [ext |-> <<".", "T", "X", "T">>,
       lines |-> CPFile(JoinTab(<<LimitU, Sample.V900>>), JoinTab(<<LimitL, Sample.V600>>))],
      \* another extension
      [ext |-> <<".", "c", "s", "v">>,
       lines |-> CPFile(JoinTab(<<LimitU, Sample.V900>>), JoinTab(<<LimitL, Sample.V660>>))],
      \* no limit rows
      [ext |-> TXT, lines |-> CPFile(<<>>, <<>>)],
      \* no 'LimitL' row
      [ext |-> TXT, lines |-> CPFile(JoinTab(<<LimitU, Sample.V900>>), <<>>)],
      \* limit rows shorter than the header row
      [ext |-> TXT, lines |-> CPFile(LimitU, LimitL)],
      \* limit rows whose cells hold the sentinel
      [ext |-> TXT,
       lines |-> CPFile(JoinTab(<<LimitU, Sentinel>>), JoinTab(<<LimitL, Sentinel>>))],
      \* no 'No.U' row
      [ext |-> TXT,
       lines |-> <<LotLine, WaferLine, JoinTab(<<LimitU, Sample.V900>>),
                   JoinTab(<<LimitL, Sample.V660>>)>> \o BiasLines \o DataLines],
      \* limit cells with an exponent and with a sign
      [ext |-> TXT,
       lines |-> CPFile(JoinTab(<<LimitU, Sample.I1n>>),
                        JoinTab(<<LimitL, <<"-", "5", ".", "0", "V">>>>))],
      \* a line of text between data rows
      [ext |-> TXT,
       lines |-> CPFile(JoinTab(<<LimitU, Sample.V850>>), JoinTab(<<LimitL, Sample.V600>>))
                 \o << <<"E", "N", "D">>, JoinTab(<<<<"3">>, Sample.V700>>) >>] }

\* the directories: up to MaxFiles files, in the order os.walk lists them
CPDirectories ==
    UNION { { [i \in 1..n |-> [name |-> i, ext |-> c[i].ext, lines |-> c[i].lines]] :
                c \in [1..n -> CPFileContents] } : n \in 0..MaxFiles }

\* find_log_files and the test of its result in parse_all_files
FindLogFiles ==
    /\ cp_pc = "start"
    /\ cp_log_files' = SelectFiles(cp_files)
    /\ IF SelectFiles(cp_files) = <<>>
       THEN /\ log' = Append(log, [kind |-> "no CP log files", file |-> 0])
            /\ cp_ret' = None
            /\ cp_pc' = "done"
       ELSE /\ cp_pc' = "parsing"
            /\ UNCHANGED <<log, cp_ret>>
    /\ UNCHANGED <<cp_files, cp_idx, cp_all_data, cp_all_limits,
                   rawVars, tokVars, anaVars>>

\* what parse_all_files does with the result r of parse_file(file)
KeepParsed(file, r) ==
    /\ cp_all_data' = IF r.found THEN Append(cp_all_data, r.data) ELSE cp_all_data
    /\ cp_all_limits' = IF r.found THEN MergeLimits(cp_all_limits, r.limits)
                        ELSE cp_all_limits
    /\ log' = IF r.found THEN log
              ELSE Append(log, [kind |-> "header not found", file |-> file.name])

\* one iteration of the loop of parse_all_files
ParseFile ==
    /\ cp_pc = "parsing"
    /\ cp_idx < Len(cp_log_files)
    /\ KeepParsed(cp_log_files[cp_idx + 1], parse_file(cp_log_files[cp_idx + 1]))
    /\ cp_idx' = cp_idx + 1
    /\ UNCHANGED <<cp_files, cp_log_files, cp_pc, cp_ret, rawVars, tokVars, anaVars>>

\* the end of parse_all_files: (df, all_limits), or (None, None)
CombineFiles ==
    /\ cp_pc = "parsing"
    /\ cp_idx = Len(cp_log_files)
    /\ cp_ret' = IF cp_all_data # <<>>
                 THEN [kind |-> "result", df |-> Concat(cp_all_data),
                       all_limits |-> cp_all_limits]
                 ELSE None
    /\ cp_pc' = "done"
    /\ UNCHANGED <<cp_files, cp_log_files, cp_idx, cp_all_data, cp_all_limits,
                   log, rawVars, tokVars, anaVars>>

InitCP ==
    /\ \E files \in CPDirectories : InitCPWith(files)
    /\ InitRawWith(<<>>)
    /\ log = <<>>
    /\ InitTok
    /\ InitAnaWith(None)

NextCP ==
    \/ FindLogFiles
    \/ ParseFile
    \/ CombineFiles

SpecCP == InitCP /\ [][NextCP]_vars

----------------------------------------------------------------------------
(* The statistics engine on a dataset *)

\* the most records of a dataset
MaxRecords == 3

\* the rows of a combined frame: a value of BVDSS1, missing or not, and the
\* header information of a file with or without a wafer number
Records ==
    { [cells |-> (NoU :> Number(1, 0)) @@ (BVDSS1 :> v), header |-> h,
       file_name |-> 1] :
        v \in {None, Number(700, 0), Number(950, 0)},
        h \in { ("lot_number" :> Str(<<"L", "1">>)) @@ ("wafer_number" :> Str(<<"7">>)),
                ("lot_number" :> Str(<<"L", "1">>))
                    @@ ("wafer_number" :> Str(<<"1", "2">>)),
                "lot_number" :> Str(<<"L", "1">>) } }

\* the columns of a combined frame
RecordColumns ==
    {Cell(NoU), Cell(BVDSS1), Info("lot_number"), Info("wafer_number")}

\* the datasets the analyzer is created with
Datasets ==
    {None} \cup
    UNION { { DataFrame(RecordColumns, rows) : rows \in [1..n -> Records] } :
              n \in 0..MaxRecords }

\* the bounds passed to calculate_yield and calculate_cp_capability: none,
\* one of them, both, and both inverted
YieldBounds ==
    { [lower |-> None, upper |-> None],
      [lower |-> Number(950, 0), upper |-> None],
      [lower |-> None, upper |-> Number(700, 0)],
      [lower |-> Number(700, 0), upper |-> Number(950, 0)],
      [lower |-> Number(950, 0), upper |-> Number(700, 0)] }

\* a calculate_yield that adds its 'pass' column to self.data itself
CalculateYield_InPlace(parameter, lower, upper, group_by) ==
    /\ yield_data' = calculate_yield(data, parameter, lower, upper, group_by)
    /\ yield_call' = [parameter |-> parameter, lower |-> lower, upper |-> upper,
                      group_by |-> group_by]
    /\ query' = NoCall
    /\ answer' = NoCall
    /\ data' = IF data = None \/ parameter \notin data.columns THEN data
               ELSE DataFrame(data.columns \cup {Info("pass")},
                              [i \in 1..Len(data.rows) |->
                                 [data.rows[i] EXCEPT !.header =
                                    @ @@ ("pass" :> [kind |-> "bool",
                                                     b |-> pass(At(data.rows[i], parameter),
                                                                lower, upper)])]])
    /\ UNCHANGED <<rawVars, log, tokVars, cpVars>>

\* a call of calculate_yield: the 'pass' column is added to a copy of
\* self.data, which stays as it is
CalculateYield(parameter, lower, upper, group_by) ==
    /\ yield_data' = calculate_yield(data, parameter, lower, upper, group_by)
    /\ yield_call' = [parameter |-> parameter, lower |-> lower, upper |-> upper,
                      group_by |-> group_by]
    /\ query' = NoCall
    /\ answer' = NoCall
    /\ UNCHANGED <<data, rawVars, log, tokVars, cpVars>>

\* what a query other than calculate_yield leaves: the call and its result
Returned(call, result) ==
    /\ query' = call
    /\ answer' = result
    /\ yield_data' = NoCall
    /\ yield_call' = NoCall
    /\ UNCHANGED <<data, rawVars, log, tokVars, cpVars>>

\* a call of get_parameter_stats, which reads self.data
GetParameterStats(parameter, group_by) ==
    Returned([op |-> "get_parameter_stats", parameter |-> parameter,
              group_by |-> group_by],
             get_parameter_stats(data, parameter, group_by))

\* a call of calculate_cp_capability, which works on a copy of self.data
CalculateCpCapability(parameter, lower, upper, group_by) ==
    Returned([op |-> "calculate_cp_capability", parameter |-> parameter,
              lower |-> lower, upper |-> upper, group_by |-> group_by],
             calculate_cp_capability(data, parameter, lower, upper, group_by))

\* a call of filter_data, which filters a copy of self.data
FilterData(conditions) ==
    Returned([op |-> "filter_data", conditions |-> conditions],
             filter_data(data, conditions))

\* a call of get_parameter_data, which reads self.data
GetParameterData(parameter, group_by) ==
    Returned([op |-> "get_parameter_data", parameter |-> parameter,
              group_by |-> group_by],
             get_parameter_data(data, parameter, group_by))

InitAna ==
    /\ \E d \in Datasets : InitAnaWith(d)
    /\ InitRawWith(<<>>)
    /\ log = <<>>
    /\ InitTok
    /\ InitCPWith(<<>>)

\* the queries on a parameter the dataset has, with every choice of bounds
\* and group column, those on one it does not have, and filter_data with no
\* condition, a value or a list of values for a column, and a column the
\* dataset does not have
NextAna ==
    \/ \E group_by \in {None, Info("wafer_number"), Info("program_name")} :
          \/ \E b \in YieldBounds :
                \/ CalculateYield(Cell(BVDSS1), b.lower, b.upper, group_by)
                \/ CalculateCpCapability(Cell(BVDSS1), b.lower, b.upper, group_by)
          \/ GetParameterStats(Cell(BVDSS1), group_by)
          \/ GetParameterData(Cell(BVDSS1), group_by)
    \/ CalculateYield(Cell(IDSS1), Number(950, 0), None, None)
    \/ CalculateCpCapability(Cell(IDSS1), Number(950, 0), None, None)
    \/ GetParameterStats(Cell(IDSS1), None)
    \/ GetParameterData(Cell(IDSS1), None)
    \/ \E conditions \in
            { {},
              {[column |-> Info("wafer_number"), values |-> {Str(<<"7">>)}]},
              {[column |-> Info("wafer_number"),
                values |-> {Str(<<"7">>), Str(<<"1", "2">>)}],
               [column |-> Cell(BVDSS1), values |-> {Number(700, 0)}]},
              {[column |-> Info("program_name"), values |-> {Str(<<"P">>)}]} } :
          FilterData(conditions)

SpecAna == InitAna /\ [][NextAna]_vars

----------------------------------------------------------------------------
(* Claims about the UnitValue parser (SpecTok) *)

\* the unsigned literals, with and without exponent
UnsignedLiterals == { l \o x : l \in TokLiterals, x \in TokExps }

\* a call has been made
Called == ret # NoCall

\* v * 10^k
Scaled(v, k) == Number(v.m, v.e + k)

\* the multiplier (as a power of ten) of a unit's leading character
LeadingMultiplier(u) ==
    IF u # <<>> /\ <<u[1]>> \in DOMAIN unit_multipliers
    THEN unit_multipliers[<<u[1]>>] ELSE 0

\* the value of a numeric literal
LiteralValue(l) == FloatOfMatch(ReMatch(l))

\* the numeric literals, signed and unsigned, other than the sentinel
PlainLiterals ==
    { sg \o l : sg \in {<<>>, <<"-">>, <<"+">>}, l \in UnsignedLiterals } \ {Sentinel}

\* the trailing run of letters of a token, and what precedes it
RECURSIVE UnitStart(_, _)
UnitStart(s, i) ==
    IF i >= 1 /\ s[i] \in Letters THEN UnitStart(s, i - 1) ELSE i + 1

UnitPart(s) == SubSeq(s, UnitStart(s, Len(s)), Len(s))

LiteralPart(s) == SubSeq(s, 1, UnitStart(s, Len(s)) - 1)

\* C5: a numeric literal followed by an alphabetic unit (or by none) is the
\* literal times the multiplier of the unit's LEADING character (1 when that
\* character is not in the table), for multi-character units too
C5_LeadingPrefixScales ==
    (Called /\ LiteralPart(value_str) \in PlainLiterals
            /\ UnitPart(value_str) \in TokUnits \cup {<<>>})
    => ret = Scaled(LiteralValue(LiteralPart(value_str)),
                    LeadingMultiplier(UnitPart(value_str)))

\* C6: '999.9', the empty token and a blank token are Missing, the bare '-'
\* is the number 0, and every call returns Missing or a number
C6_MissingDistinctFromZero ==
    Called =>
        /\ value_str \in {Sentinel, <<>>, <<" ">>, <<" ", " ">>} => ret = None
        /\ value_str = <<"-">> => ret = Number(0, 0)
        /\ ret.kind \in {"None", "num"}

C6_Witness == Called /\ value_str = <<"-">> /\ ret = Number(0, 0)

\* C7 as stated: for every unsigned literal d, parse(d + '-') = parse(d),
\* a non-negative number
C7_TrailingDashAnyLiteral ==
    \A d \in UnsignedLiterals :
        (Called /\ value_str = d \o <<"-">>)
        => /\ ret = parse_scientific_notation(d)
           /\ IsNumber(ret) => ret.m >= 0

\* C7 amended: for every unsigned literal d other than the sentinel '999.9',
\* parse(d + '-') = parse(d), a non-negative number; parse('999.9-') is the
\* number 999.9 although parse('999.9') is Missing
C7_TrailingDashStripped ==
    \A d \in UnsignedLiterals :
        (Called /\ value_str = d \o <<"-">>)
        => /\ d # Sentinel => ret = parse_scientific_notation(d)
           /\ d = Sentinel => ret = Number(9999, -1)
           /\ IsNumber(ret) /\ ret.m >= 0

C7_Witness ==
    Called /\ value_str = <<"5", "0", ".", "0", "0", "-">> /\ ret = Number(50, 0)

----------------------------------------------------------------------------
(* Claims about the merge of limits in rawdata_analyzer_project (Spec) *)

\* the parameters whose limits are looked at
Parameters == {BVDSS1, IDSS1}

\* the limits a file declares: what its parse stores in an empty map
DeclaredLimits(file) == parse_log_file(file, <<>>).limits

\* file declares a value for parameter p
Declares(file, p) ==
    /\ p \in DOMAIN DeclaredLimits(file)
    /\ \/ DeclaredLimits(file)[p]["upper"] # None
       \/ DeclaredLimits(file)[p]["lower"] # None

\* the files of the directory that declare a value for p, by position
Declaring(p) == { i \in 1..Len(log_files) : Declares(log_files[i], p) }

\* parse_all_logs has returned and the caller has set no limit
MergedUntouched == pc = "done" /\ set_calls = <<>>

\* the conflicts the program has recorded for parameter p
ConflictsRecorded(p) ==
    { i \in 1..Len(log) : log[i].kind = "limit conflict" /\ log[i].parameter = p }

\* the files whose rows are in the combined frame
FilesCombined == { combined[i].file_name : i \in 1..Len(combined) }

\* C1: after parse_all_logs, the limits get_limits(p) returns are those of
\* the FIRST file of the sequence that declares a value for p
C1_FirstSeenWins ==
    MergedUntouched =>
        \A p \in Parameters :
            Declaring(p) # {}
            => get_limits(p) = DeclaredLimits(log_files[Least(Declaring(p))])[p]

\* C2: two files that declare the same upper limit for p record no conflict;
\* when the second declares a different non-null upper limit, exactly one
\* conflict is recorded for p, both files are merged and the upper limit
\* stays the first file's
C2_ConflictRecordedFirstKept ==
    (MergedUntouched /\ Len(log_files) = 2) =>
        \A p \in Parameters :
            (/\ p \in DOMAIN DeclaredLimits(log_files[1])
             /\ p \in DOMAIN DeclaredLimits(log_files[2])
             /\ DeclaredLimits(log_files[1])[p]["upper"] # None
             /\ DeclaredLimits(log_files[2])[p]["upper"] # None)
            => IF DeclaredLimits(log_files[1])[p]["upper"]
                  = DeclaredLimits(log_files[2])[p]["upper"]
               THEN ConflictsRecorded(p) = {}
               ELSE /\ Cardinality(ConflictsRecorded(p)) = 1
                    /\ \A i \in 1..2 :
                          parse_log_file(log_files[i], <<>>).df # <<>>
                          => log_files[i].name \in FilesCombined
                    /\ get_limits(p)["upper"]
                       = DeclaredLimits(log_files[1])[p]["upper"]

\* the limits get_limits returns for p once file alone has been parsed
LimitsAlone(file, p) ==
    IF p \in DOMAIN DeclaredLimits(file)
    THEN DeclaredLimits(file)[p]
    ELSE ("upper" :> None) @@ ("lower" :> None)

\* C4: when the second of two files declares no limits, the limits after
\* both are those after the first alone
C4_NoLimitsFileChangesNothing ==
    (MergedUntouched /\ Len(log_files) = 2
        /\ \A p \in Parameters : ~Declares(log_files[2], p))
    => \A p \in Parameters : get_limits(p) = LimitsAlone(log_files[1], p)

----------------------------------------------------------------------------
(* Claims about calculate_yield (SpecAna) *)

\* calculate_yield has been called
YieldCalled == yield_call # NoCall

\* the call took the grouped path
YieldGrouped ==
    yield_call.group_by # None /\ yield_call.group_by \in data.columns

\* the records of the dataset that row r of the result counts
CountedBy(r) ==
    IF YieldGrouped
    THEN GroupOf(data.rows, yield_call.group_by, r.key)
    ELSE 1..Len(data.rows)

\* those of the records S whose value for the parameter is Missing
MissingIn(S) == { i \in S : At(data.rows[i], yield_call.parameter) = None }

\* C3: whatever the limits and the path, every row of the result counts the
\* records with a Missing value among the failed and none among the passed
C3_MissingAlwaysFailed ==
    YieldCalled =>
        \A k \in 1..Len(yield_data.rows) :
            /\ yield_data.rows[k].failed
               >= Cardinality(MissingIn(CountedBy(yield_data.rows[k])))
            /\ yield_data.rows[k].passed
               <= Cardinality(CountedBy(yield_data.rows[k])
                              \ MissingIn(CountedBy(yield_data.rows[k])))

----------------------------------------------------------------------------
(* Claims about files without a structural marker (SpecCP) *)

\* no line of the file begins with marker
NoLineBegins(lines, marker) ==
    \A i \in 1..Len(lines) : ~StartsWith(lines[i], marker)

\* one of the rows 'No.U', 'LimitU', 'LimitL' cannot be located in the file
LacksMarker(lines) ==
    \/ NoLineBegins(lines, NoU)
    \/ NoLineBegins(lines, LimitU)
    \/ NoLineBegins(lines, LimitL)

\* a format error has been reported for the file
FormatErrorReported(file) ==
    \E k \in 1..Len(log) :
        /\ log[k].file = file.name
        /\ log[k].kind \in {"header not found", "error parsing"}

RECURSIVE WithMarkers(_)
\* the files that have the three rows
WithMarkers(files) ==
    IF files = <<>> THEN <<>>
    ELSE (IF LacksMarker(Head(files).lines) THEN <<>> ELSE <<Head(files)>>)
         \o WithMarkers(Tail(files))

\* the records of the files, in order
RecordsOfFiles(files) ==
    Concat([i \in 1..Len(files) |-> parse_file(files[i]).data])

\* the records of the merged dataset
MergedRecords == IF cp_ret = None THEN <<>> ELSE cp_ret.df

\* C10: a file without a 'No.U', a 'LimitU' or a 'LimitL' row is reported as
\* a format error and adds no record to the merged dataset
C10_MissingMarkerIsFormatError ==
    cp_pc = "done" =>
        /\ \A i \in 1..Len(cp_files) :
              LacksMarker(cp_files[i].lines) => FormatErrorReported(cp_files[i])
        /\ MergedRecords = RecordsOfFiles(WithMarkers(SelectFiles(cp_files)))

----------------------------------------------------------------------------
(* Claims about the batch of parse_all_logs (Spec) *)

\* the records parse_log_file returns for the i-th file of the list
RecordsOf(i) == parse_log_file(log_files[i], <<>>).df

\* the parse of the i-th file failed: its exception was reported
ParseFailed(i) ==
    \E k \in 1..Len(log) :
        log[k].kind = "error parsing" /\ log[k].file = log_files[i].name

\* the records of the combined frame that come from the i-th file
CombinedFrom(i) ==
    SelectSeq(combined, LAMBDA r : r.file_name = log_files[i].name)

\* C11: a file whose parse fails does not end the batch: the records of
\* every file after it are in the result; and the result is empty, main
\* returning 1, exactly when no file yielded a record
C11_FailureNeverAborts ==
    pc = "done" =>
        /\ \A i \in 1..Len(log_files) :
              ParseFailed(i)
              => \A j \in (i + 1)..Len(log_files) :
                    idx >= j /\ CombinedFrom(j) = RecordsOf(j)
        /\ NoDataFound(combined)
           <=> \A i \in 1..Len(log_files) : RecordsOf(i) = <<>>

\* a batch whose first file failed and whose second file gave the records
\* of the result
C11_Witness ==
    /\ pc = "done"
    /\ Len(log_files) = 2
    /\ ParseFailed(1)
    /\ RecordsOf(2) # <<>>
    /\ combined = RecordsOf(2)
    /\ ~NoDataFound(combined)

RECURSIVE SumLen(_)
\* the sum of the lengths of the frames
SumLen(frames) ==
    IF frames = <<>> THEN 0 ELSE Len(Head(frames)) + SumLen(Tail(frames))

\* the position of a record: its file, then its device index
RecordBefore(r, s) ==
    \/ r.file_name < s.file_name
    \/ /\ r.file_name = s.file_name
       /\ NumLess(r.cells[NoU], s.cells[NoU])

\* C17: the frame parse_all_logs returns is the records of the files in the
\* order of the list, each file's in the order of its lines: as many as the
\* files have together, none dropped, repeated or moved
C17_ConcatInFileOrder ==
    pc = "done" =>
        /\ \A i \in 1..Len(log_files) : CombinedFrom(i) = RecordsOf(i)
        /\ Len(combined) = SumLen([i \in 1..Len(log_files) |-> RecordsOf(i)])
        /\ \A k \in 1..(Len(combined) - 1) :
              RecordBefore(combined[k], combined[k + 1])

\* two files with records, merged
C17_Witness ==
    /\ pc = "done"
    /\ Len(log_files) = 2
    /\ RecordsOf(1) # <<>>
    /\ RecordsOf(2) # <<>>
    /\ Len(combined) = Len(RecordsOf(1)) + Len(RecordsOf(2))
    /\ Len(combined) >= 3

----------------------------------------------------------------------------
(* Claims about the columns that are kept (Spec) *)

\* the parameter keys of a record: its columns other than the device index
ParameterKeys(r) == DOMAIN r.cells \ {NoU}

\* C12: once a file has been parsed, every key of the limits map and every
\* parameter key of every record kept is one of the target parameters
C12_OnlyTargetRetained ==
    idx >= 1 =>
        /\ DOMAIN parameter_limits \subseteq target_params
        /\ \A f \in 1..Len(all_data) : \A k \in 1..Len(all_data[f]) :
              ParameterKeys(all_data[f][k]) \subseteq target_params

----------------------------------------------------------------------------
(* Claims about files without metadata lines (Spec) *)

\* the metadata of a record's identity
IdentityKeys == {"lot_number", "wafer_number"}

\* no line of the file holds the label of key
LacksLabel(file, key) ==
    \A n \in 1..Len(file.lines) : ~Contains(file.lines[n], HeaderPatterns[key])

\* the file with a line for key put before its lines
WithLabel(file, key) ==
    [file EXCEPT !.lines = <<JoinTab(<<HeaderPatterns[key], <<"9">>>>)>> \o @]

\* the device index, the parameter values and the file name of the records
Measured(rows) ==
    [k \in 1..Len(rows) |-> [cells |-> rows[k].cells, file_name |-> rows[k].file_name]]

\* C18: the records of a file without a 'Lot number' or a 'Wafer number'
\* line are in the merged frame with the device index, values and file name
\* they would have with the line, and their lot / wafer field is the empty
\* string
C18_MissingMetadataEmptyString ==
    pc = "done" =>
        \A i \in 1..Len(log_files) : \A key \in IdentityKeys :
            LacksLabel(log_files[i], key) =>
                /\ Measured(CombinedFrom(i))
                   = Measured(parse_log_file(WithLabel(log_files[i], key), <<>>).df)
                /\ \A k \in 1..Len(CombinedFrom(i)) :
                      At(CombinedFrom(i)[k], Info(key)) = Str(<<>>)

----------------------------------------------------------------------------
(* Claims about the parser's shared limits map (Spec) *)

\* C19: a turn of the loop that parses one file leaves the parser's
\* parameter_limits as it was: the limits of the files are combined only
\* when the frames are
C19_ParseLeavesSharedLimits ==
    [][ParseLogFile => parameter_limits' = parameter_limits]_vars

----------------------------------------------------------------------------
(* Claims about the statistics of CPDataAnalyzer (SpecAna) *)

\* the last query was a call of op
Queried(op) == query # NoCall /\ query.op = op

\* the query took the path of a group column the dataset has
QueryGrouped == query.group_by # None /\ query.group_by \in data.columns

\* the values of the query's parameter that are not Missing, for the
\* records of the group of key, or for all records without a group column
PresentValues(key) ==
    Values(data.rows,
           IF QueryGrouped THEN GroupOf(data.rows, query.group_by, key)
           ELSE 1..Len(data.rows),
           query.parameter)

RECURSIVE SumOf(_)
\* the sum of a sequence of quotients
SumOf(x) == IF x = <<>> THEN Fraction(0, 1) ELSE Arith(Head(x), "+", SumOf(Tail(x)))

\* m is the mean of the values V: n * m is their sum
IsMeanOf(m, V) ==
    Arith(m, "*", Fraction(Len(V), 1)) = SumOf([i \in 1..Len(V) |-> Rat(V[i])])

\* s is the sample standard deviation of the values V, whose mean is m:
\* (n - 1) * s^2 is the sum of the squares less n * m^2
IsSampleStdOf(s, m, V) ==
    /\ s # None
    /\ Arith(s.of, "*", Fraction(Len(V) - 1, 1))
       = Arith(SumOf([i \in 1..Len(V) |-> Arith(Rat(V[i]), "*", Rat(V[i]))]),
               "-", Arith(Fraction(Len(V), 1), "*", Arith(m, "*", m)))

\* C13: with a group column, each group's count is the number of its values
\* that are not Missing, its mean and std are their sample mean and sample
\* standard deviation, and a group with exactly one such value has std = 0
\* whatever Missing values it also holds
C13_GroupStatsOfPresentValues ==
    (Queried("get_parameter_stats") /\ data # None
        /\ query.parameter \in data.columns /\ QueryGrouped) =>
        \A k \in 1..Len(answer.rows) :
            LET r == answer.rows[k]
                V == PresentValues(r.key)
            IN  /\ r.count = Len(V)
                /\ Len(V) >= 1 => IsMeanOf(r.mean, V)
                /\ Len(V) >= 2 => IsSampleStdOf(r.std, r.mean, V)
                /\ Len(V) = 1 => r.std = [kind |-> "sqrt", of |-> Fraction(0, 1)]

\* the values are not all the same: their standard deviation is > 0
Dispersed(V) == \E i, j \in 1..Len(V) : V[i] # V[j]

\* C14: a group is in the result of calculate_cp_capability only if it has
\* two or more values that are not Missing, their standard deviation is > 0
\* and a limit was given
C14_OnlyDispersedGroupsReported ==
    Queried("calculate_cp_capability") =>
        \A k \in 1..Len(answer.rows) :
            /\ Len(PresentValues(answer.rows[k].key)) >= 2
            /\ Dispersed(PresentValues(answer.rows[k].key))
            /\ query.lower # None \/ query.upper # None

\* num / (times * std)
Index(num, times, std) == [num |-> num, times |-> times, std |-> std]

\* a <= b for two quotients
AtMost(a, b) == a.n * b.d <= b.n * a.d

\* C15: a reported group with std > 0 has cp = (upper - lower) / (6 std)
\* when both limits are given and no cp otherwise; cpk is the lesser of
\* (upper - mean) / (3 std) and (mean - lower) / (3 std) when both are
\* given, the one of its limit when one is; the limits are used as given,
\* inverted or not
C15_CapabilityFormulas ==
    Queried("calculate_cp_capability") =>
        \A k \in 1..Len(answer.rows) :
            LET r   == answer.rows[k]
                cpu == Index(Arith(Rat(query.upper), "-", r.mean), 3, r.std)
                cpl == Index(Arith(r.mean, "-", Rat(query.lower)), 3, r.std)
            IN  r.std.of.n > 0 =>
                  IF query.lower # None /\ query.upper # None
                  THEN /\ r.cp = Index(Arith(Rat(query.upper), "-", Rat(query.lower)),
                                       6, r.std)
                       /\ r.cpk \in {cpu, cpl}
                       /\ AtMost(r.cpk.num, cpu.num)
                       /\ AtMost(r.cpk.num, cpl.num)
                  ELSE /\ r.cp = None
                       /\ r.cpk = IF query.upper # None THEN cpu ELSE cpl

\* inverted limits, and a group with two different values reported
C15_Witness ==
    /\ Queried("calculate_cp_capability")
    /\ query.lower = Number(950, 0)
    /\ query.upper = Number(700, 0)
    /\ Len(answer.rows) = 1
    /\ answer.rows[1].std.of.n > 0
    /\ answer.rows[1].cp.num.n < 0

\* the value is within the bounds that are given, the bounds included
WithinBounds(v, lower, upper) ==
    /\ lower = None \/ ~NumLess(v, lower)
    /\ upper = None \/ ~NumLess(upper, v)

\* C16: a record with a present value passes iff it is within the bounds
\* given, bounds included; each reported row has the number of records of
\* its group as total, passed + failed = total, and yield_pct =
\* passed / total * 100, which is 0 when total = 0
C16_YieldCounts ==
    (YieldCalled /\ data # None /\ yield_call.parameter \in data.columns) =>
        /\ \A i \in 1..Len(data.rows) :
              At(data.rows[i], yield_call.parameter) # None
              => (pass(At(data.rows[i], yield_call.parameter),
                       yield_call.lower, yield_call.upper)
                  <=> WithinBounds(At(data.rows[i], yield_call.parameter),
                                   yield_call.lower, yield_call.upper))
        /\ \A k \in 1..Len(yield_data.rows) :
              LET r  == yield_data.rows[k]
                  S  == CountedBy(r)
                  ok == { i \in S \ MissingIn(S) :
                            WithinBounds(At(data.rows[i], yield_call.parameter),
                                         yield_call.lower, yield_call.upper) }
              IN  /\ r.total = Cardinality(S)
                  /\ r.passed + r.failed = r.total
                  /\ Cardinality(ok) <= r.passed
                  /\ r.passed <= Cardinality(ok) + Cardinality(MissingIn(S))
                  /\ r.total > 0 => r.yield_pct.n * r.total
                                    = r.passed * 100 * r.yield_pct.d
                  /\ r.total = 0 => r.yield_pct = [n |-> 0, d |-> 1]

\* two records whose values are the two bounds, both counted as passed
C16_Witness ==
    /\ YieldCalled
    /\ yield_call.lower = Number(700, 0)
    /\ yield_call.upper = Number(950, 0)
    /\ data # None
    /\ Len(data.rows) = 2
    /\ At(data.rows[1], yield_call.parameter) = Number(700, 0)
    /\ At(data.rows[2], yield_call.parameter) = Number(950, 0)
    /\ Len(yield_data.rows) = 1
    /\ yield_data.rows[1].passed = 2

\* C20: no query of the statistics engine changes the dataset: its
\* records, columns and values are after the call what they were before
C20_DatasetReadOnly == [][data' = data]_vars

\* queries that have run on a dataset and returned fewer records, or a
\* frame with more columns, than the dataset has
C20_Witness ==
    /\ data # None
    /\ Len(data.rows) = 2
    /\ \/ Queried("filter_data") /\ Len(answer.rows) = 1
       \/ YieldCalled /\ Len(yield_data.rows) = 1

----------------------------------------------------------------------------
(* Claims about the data block of a file (Spec, SpecCP) *)

\* the line has the shape of a data row under a header of n fields: its
\* first tab-delimited field is a non-negative integer and it has n fields
\* or more
DataShaped(line, n) ==
    /\ Len(SplitTab(line)) >= n
    /\ StrIsDigit(SplitTab(line)[1])

\* the lines of the rows 'No.U', 'LimitU' and 'LimitL'
MarkerLines(lines) ==
    { i \in 1..Len(lines) :
        \E marker \in {NoU, LimitU, LimitL} : StartsWith(lines[i], marker) }

\* the fields of the 'No.U' row
HeaderFields(lines) ==
    SplitTab(Strip(lines[Greatest({ i \in 1..Len(lines) :
                                      StartsWith(lines[i], NoU) })]))

\* the lines after the header and limit rows that have the shape of a data
\* row
ShapedAfterMarkers(lines) ==
    { i \in 1..Len(lines) :
        /\ i > Greatest(MarkerLines(lines))
        /\ DataShaped(lines[i], Len(HeaderFields(lines))) }

\* the i-th file has the three rows and a line of the shape of a data row
\* after them, and its parse raised nothing
HasDataRows(i) ==
    /\ ~LacksMarker(log_files[i].lines)
    /\ ShapedAfterMarkers(log_files[i].lines) # {}
    /\ ~ParseFailed(i)

\* C21: the data block begins at the first line after the header and limit
\* rows that has the shape of a data row: the lines before it are skipped,
\* and the first record of the file is the one of that line
C21_BlockStartsAtFirstDataRow ==
    pc = "done" =>
        \A i \in 1..Len(log_files) :
            HasDataRows(i)
            => /\ CombinedFrom(i) # <<>>
               /\ CombinedFrom(i)[1].cells[NoU]
                  = to_numeric(SplitTab(log_files[i].lines[
                        Least(ShapedAfterMarkers(log_files[i].lines))])[1])

\* the lines from line start on that are neither blank nor of the shape of
\* a data row
Terminators(lines, start, n) ==
    { j \in start..Len(lines) :
        Strip(lines[j]) # <<>> /\ ~DataShaped(lines[j], n) }

\* the data rows of the block that starts at line start: the lines of that
\* shape before the first terminator, in order
BlockRows(lines, start, n) ==
    SelectSeq([j \in 1..Len(lines) |-> j],
              LAMBDA j : /\ j >= start
                         /\ DataShaped(lines[j], n)
                         /\ \A k \in Terminators(lines, start, n) : j < k)

\* the files of cp_analyzer_project parsed so far in which the header row
\* was found: those whose frame is in all_data
FramedFiles ==
    SelectSeq(SubSeq(cp_log_files, 1, cp_idx),
              LAMBDA f : extract_headers(f.lines).header_idx # 0)

\* the rows of the data block of a file of cp_analyzer_project
BlockRowsCP(f) ==
    BlockRows(f.lines, extract_headers(f.lines).header_idx + DataOffset,
              Len(extract_headers(f.lines).headers))

\* C22: once the data block has started, its first line that is neither
\* blank nor of the shape of a data row ends it: the records of a file are
\* those of the data rows before that line, blank lines being skipped
C22_FirstBadLineEndsBlock ==
    \A k \in 1..Len(cp_all_data) :
        /\ Len(cp_all_data[k]) = Len(BlockRowsCP(FramedFiles[k]))
        /\ \A r \in 1..Len(cp_all_data[k]) :
              cp_all_data[k][r][DeviceKey]
              = Str(SplitTab(FramedFiles[k].lines[BlockRowsCP(FramedFiles[k])[r]])[1])

\* every line of the i-th file after the header and limit rows is blank or
\* has the shape of a data row
OnlyDataRows(i) ==
    /\ ~LacksMarker(log_files[i].lines)
    /\ ShapedAfterMarkers(log_files[i].lines) # {}
    /\ Terminators(log_files[i].lines,
                   Greatest(MarkerLines(log_files[i].lines)) + 1,
                   Len(HeaderFields(log_files[i].lines))) = {}

\* C23: every line of the data block that has the shape of a data row gives
\* one record, whose value for each name of the header is the one of the
\* field at the name's position, also when the row has more fields than the
\* header or an empty last cell
C23_EveryDataRowOneRecord ==
    pc = "done" =>
        \A i \in 1..Len(log_files) :
            OnlyDataRows(i)
            => LET lines == log_files[i].lines
                   rows == BlockRows(lines, Greatest(MarkerLines(lines)) + 1,
                                     Len(HeaderFields(lines)))
               IN  /\ Len(CombinedFrom(i)) = Len(rows)
                   /\ \A r \in 1..Len(rows) :
                         \A j \in 1..Len(HeaderFields(lines)) :
                             CombinedFrom(i)[r].cells[HeaderFields(lines)[j]]
                             = ConvertCell(HeaderFields(lines)[j],
                                           SplitTab(lines[rows[r]])[j])

----------------------------------------------------------------------------
(* Claims about groups without values (SpecAna) *)

\* C24: in get_parameter_stats with a group column, a group all of whose
\* values are Missing is reported with count 0 and with mean, std, min and
\* max undefined, whatever the number of its records
C24_AllMissingGroupUndefined ==
    (Queried("get_parameter_stats") /\ data # None
        /\ query.parameter \in data.columns /\ QueryGrouped) =>
        \A k \in 1..Len(answer.rows) :
            PresentValues(answer.rows[k].key) = <<>>
            => /\ answer.rows[k].count = 0
               /\ \A field \in {"mean", "std", "min", "max"} :
                     answer.rows[k][field] = None

----------------------------------------------------------------------------
(* Claims about the limits of skipped files (Spec) *)

\* the turn of the loop skips its file: the parse raised or gave a frame
\* without rows, and nothing is added to all_data
FileSkipped == ParseLogFile /\ all_data' = all_data

\* C25: a file that is skipped, because its parse raises or yields no
\* record, leaves the limits as they were before it: no parameter is added
\* and no limit is changed
C25_SkippedFileLeavesLimits ==
    [][FileSkipped => parameter_limits' = parameter_limits]_vars

----------------------------------------------------------------------------
(* Claims about the limits the caller sets (Spec) *)

\* C29: after any sequence of set_limits calls and file parses, the mapping
\* get_limits returns for a parameter has an 'upper' and a 'lower' entry
C29_LimitsHaveBothEntries ==
    \A p \in Parameters : {"upper", "lower"} \subseteq DOMAIN get_limits(p)

\* the set_limits calls made before parse_all_logs that supplied the bound
\* key of parameter p, by position
SuppliedBefore(p, key) ==
    { k \in 1..Len(set_calls) :
        /\ set_calls[k].parameter = p
        /\ set_calls[k][key] # None
        /\ set_calls[k].before }

\* C30: a bound the caller supplied through set_limits before parse_all_logs
\* is the one get_limits returns after the files have been parsed, whatever
\* the files declare
C30_CallerLimitsTakePrecedence ==
    pc = "done" =>
        \A p \in Parameters : \A key \in {"lower", "upper"} :
            SuppliedBefore(p, key) # {}
            => /\ key \in DOMAIN get_limits(p)
               /\ get_limits(p)[key]
                  = set_calls[Greatest(SuppliedBefore(p, key))][key]

----------------------------------------------------------------------------
(* Claims about the merge of limits in cp_analyzer_project (SpecCP) *)

\* the files parsed so far whose parse produced a limits entry for p, by
\* position in the list of log files
EntryFiles(p) ==
    { i \in 1..cp_idx :
        /\ parse_file(cp_log_files[i]).found
        /\ p \in DOMAIN parse_file(cp_log_files[i]).limits }

\* the entry for p of the first such file
FirstEntry(p) == parse_file(cp_log_files[Least(EntryFiles(p))]).limits[p]

\* C26: in parse_all_files, all_limits[p] is the limits entry of the first
\* file of the sequence whose parse produced an entry for p: no later file
\* replaces or alters it, it is what the call returns, and no disagreement
\* is recorded
C26_FirstEntryKept ==
    /\ \A p \in DOMAIN cp_all_limits :
          EntryFiles(p) # {} /\ cp_all_limits[p] = FirstEntry(p)
    /\ \A p \in Parameters : EntryFiles(p) # {} => p \in DOMAIN cp_all_limits
    /\ (cp_pc = "done" /\ cp_ret # None) => cp_ret.all_limits = cp_all_limits
    /\ \A k \in 1..Len(log) : log[k].kind # "limit conflict"

C26_Witness ==
    /\ cp_pc = "done"
    /\ EntryFiles(BVDSS1) = {1, 2}
    /\ parse_file(cp_log_files[2]).limits[BVDSS1] # FirstEntry(BVDSS1)
    /\ cp_ret.all_limits[BVDSS1] = FirstEntry(BVDSS1)

----------------------------------------------------------------------------
(* Claims about the conversion of limit cells in cp_analyzer_project (SpecCP) *)

\* the cell of parameter p in the 'LimitU' (key "upper") or 'LimitL' (key
\* "lower") row of the file
LimitCell(f, key, p) ==
    SplitTab(Strip(f.lines[extract_headers(f.lines).header_idx
                           + (IF key = "upper" THEN 1 ELSE 2)]))
        [Greatest({ j \in 1..Len(extract_headers(f.lines).headers) :
                      extract_headers(f.lines).headers[j] = p })]

\* C27: each bound of all_limits is its cell of the limit row converted as
\* _parse_scientific_notation converts it: sign and exponent kept, the
\* unit's prefix applied, no value for an empty or sentinel cell
C27_LimitCellsAsUnitValue ==
    \A p \in DOMAIN cp_all_limits : \A key \in DOMAIN cp_all_limits[p] :
        cp_all_limits[p][key]
        = parse_scientific_notation(
              LimitCell(cp_log_files[Least(EntryFiles(p))], key, p))

----------------------------------------------------------------------------
(* Claims about the keys of the capability rows (SpecAna) *)

\* C28: with a group column, the key stored in a row of the result of
\* calculate_cp_capability is the key of the group whose values that are not
\* Missing gave the row's count, mean and std, whatever the order in which
\* the groups first appear and whether or not records lack a key
C28_RowCarriesItsGroupKey ==
    (Queried("calculate_cp_capability") /\ data # None /\ QueryGrouped) =>
        \A k \in 1..Len(answer.rows) :
            LET r == answer.rows[k]
                V == PresentValues(r.key)
            IN  /\ r.key \in GroupKeys(data.rows, query.group_by)
                /\ r.count = Len(V)
                /\ Len(V) >= 2
                   => IsMeanOf(r.mean, V) /\ IsSampleStdOf(r.std, r.mean, V)

====
